---- MODULE Spec2Model ----
(***************************************************************************)
(* Model of gsGridIterator (src/src/gsTensor/gsGridIterator.h):            *)
(*   - the integer lattice iterator  gsGridIterator<Z,mode,d,true>,        *)
(*   - the uniform sample iterator   gsGridIterator<T,mode,d,false>,       *)
(*   - the coordinate-wise iterator  gsGridIterator<T,3,d,false>.          *)
(* Points are sequences; axis i of the source (0-based) is index i+1 here. *)
(***************************************************************************)
EXTENDS Integers, Sequences, FiniteSets

\* ------------------------------------------------------------------ bounds
MaxDim == 2
MaxB == 3
CoordCap == 4
MaxT == 2
MaxNp == 3

\* ------------------------------------------------- gsGridIteratorMode enum
CUBE == 0
BDR == 1
VERTEX == 2
CWISE == 3

VARIABLES
    kind,      \* which class the instance is: "int", "smp" or "cw"
    mode,      \* template parameter mode
    d,         \* template parameter d: -1 (run-time dimension) or the fixed size
    m_low,     \* integer lattice iterator (or the wrapped m_iter): lower limit
    m_upp,     \*   upper limit (closed)
    m_cur,     \*   current point
    m_dim,     \*   number of rows, 0 when done
    emitted,   \* history: the points read by  for (; it; ++it) read(*it)
    smp_low,   \* uniform sample iterator: m_low
    smp_upp,   \*   m_upp
    m_step,    \*   m_step
    smp_cur,   \*   m_cur
    smp_src,   \*   history: which assignment wrote each coordinate of m_cur
    m_cwise,   \* coordinate-wise iterator: the referenced table
    cw_cur,    \*   m_cur, a matrix
    args,      \* history: the arguments of the last reset(a, b, open)
    last_op,   \* history: the last operation called
    first,     \* history: the points of the first finished traversal
    insts      \* two instances, for the interleavings of separate iterators

smpVars == <<smp_low, smp_upp, m_step, smp_cur, smp_src>>
cwVars == <<m_cwise, cw_cur>>
histVars == <<args, last_op, first>>
auxVars == <<histVars, insts>>
vars == <<kind, mode, d, m_low, m_upp, m_cur, m_dim, emitted, smpVars, cwVars, auxVars>>

Axes(p) == 1..Len(p)

\* mutant of AllLeq: a box with low[i] = upp[i] on an axis counts as empty
AllLess(low, upp) == \A i \in Axes(low) : low[i] < upp[i]

\* (m_low.array() <= m_upp.array()).all()
AllLeq(low, upp) == \A i \in Axes(low) : low[i] <= upp[i]

\* mutant of LatReset: the open flag is ignored and b stored as it is
LatResetClosed(a, b, open) ==
    [low |-> a, cur |-> a, upp |-> b,
     dim |-> IF AllLeq(a, b) THEN Len(a) ELSE 0]

\* reset(a, b, open) of the integer lattice iterator: the fields it assigns
LatReset(a, b, open) ==
    LET upp == IF open THEN [i \in Axes(b) |-> b[i] - 1] ELSE b
    IN  [low |-> a, cur |-> a, upp |-> upp,
         dim |-> IF AllLeq(a, upp) THEN Len(a) ELSE 0]

\* mutant of LatRestart: reset() leaves the open flag at its default, true
LatRestartOpen(low, upp) == LatReset(low, upp, TRUE)

\* reset(): reset(m_low, m_upp, false)
LatRestart(low, upp) == LatReset(low, upp, FALSE)

\* mutant of LoopEnd: the scan stops one axis short of the last
LoopEndShort(dd, dim) == IF dd = -1 THEN dim - 1 ELSE dd - 1

\* the loop bound (d==-1?m_dim:d)
LoopEnd(dd, dim) == IF dd = -1 THEN dim ELSE dd

\* mutant of Scan02: case 2 steps by one as case 0 does
RECURSIVE Scan02UnitStep(_, _, _, _, _, _, _)
Scan02UnitStep(md, dd, low, upp, cur, dim, i) ==
    IF i > LoopEnd(dd, dim)
    THEN [cur |-> cur, dim |-> 0]
    ELSE IF cur[i] # upp[i]
         THEN [cur |-> [cur EXCEPT ![i] = cur[i] + 1], dim |-> dim]
         ELSE Scan02UnitStep(md, dd, low, upp, [cur EXCEPT ![i] = low[i]], dim, i + 1)

\* operator++, case 0 and case 2: the scan from axis i on
RECURSIVE Scan02(_, _, _, _, _, _, _)
Scan02(md, dd, low, upp, cur, dim, i) ==
    IF i > LoopEnd(dd, dim)
    THEN [cur |-> cur, dim |-> 0]
    ELSE IF cur[i] # upp[i]
         THEN [cur |-> [cur EXCEPT ![i] = IF md = 0 THEN cur[i] + 1 ELSE upp[i]],
               dim |-> dim]
         ELSE Scan02(md, dd, low, upp, [cur EXCEPT ![i] = low[i]], dim, i + 1)

\* mutant of BdrCount: the counter starts one too high, so c is never 1
BdrCountFromNext(dd, low, upp, cur, dim, i) ==
    i + 1 + Cardinality({j \in (i + 1)..LoopEnd(dd, dim) :
                            cur[j] = low[j] \/ cur[j] = upp[j]})

\* operator++, case 1: c after the inner loop over the axes above i
BdrCount(dd, low, upp, cur, dim, i) ==
    i + Cardinality({j \in (i + 1)..LoopEnd(dd, dim) :
                        cur[j] = low[j] \/ cur[j] = upp[j]})

\* mutant of BdrStep: without the m_dim==1 exception for the last axis
BdrStepLastAxisSteps(dd, low, upp, cur, dim, i) ==
    IF cur[i] = low[i] /\ i # dim
    THEN IF BdrCount(dd, low, upp, cur, dim, i) = 1
         THEN upp[i]
         ELSE cur[i] + 1
    ELSE cur[i] + 1

\* mutant of BdrStep: the jump fires when exactly one axis above sits at a bound
BdrStepCountOne(dd, low, upp, cur, dim, i) ==
    IF cur[i] = low[i] /\ (i # dim \/ dim = 1)
    THEN IF BdrCount(dd, low, upp, cur, dim, i) - i = 1
         THEN upp[i]
         ELSE cur[i] + 1
    ELSE cur[i] + 1

\* mutant of BdrStep: the jump fires as soon as the axis sits at m_low
BdrStepAlwaysJump(dd, low, upp, cur, dim, i) ==
    IF cur[i] = low[i] /\ (i # dim \/ dim = 1)
    THEN upp[i]
    ELSE cur[i] + 1

\* operator++, case 1: the new coordinate of the first axis i not at m_upp
BdrStep(dd, low, upp, cur, dim, i) ==
    IF cur[i] = low[i] /\ (i # dim \/ dim = 1)
    THEN IF BdrCount(dd, low, upp, cur, dim, i) = 1
         THEN upp[i]
         ELSE cur[i] + 1
    ELSE cur[i] + 1

\* mutant of Scan1: the axes above i are put back to m_low as well
RECURSIVE Scan1ClearsAbove(_, _, _, _, _, _)
Scan1ClearsAbove(dd, low, upp, cur, dim, i) ==
    IF i > LoopEnd(dd, dim)
    THEN [cur |-> cur, dim |-> 0]
    ELSE IF cur[i] # upp[i]
         THEN [cur |-> [k \in Axes(cur) |->
                          IF k = i THEN BdrStep(dd, low, upp, cur, dim, i)
                          ELSE low[k]],
               dim |-> dim]
         ELSE Scan1ClearsAbove(dd, low, upp, cur, dim, i + 1)

\* operator++, case 1: the scan from axis i on
RECURSIVE Scan1(_, _, _, _, _, _)
Scan1(dd, low, upp, cur, dim, i) ==
    IF i > LoopEnd(dd, dim)
    THEN [cur |-> cur, dim |-> 0]
    ELSE IF cur[i] # upp[i]
         THEN [cur |-> [k \in Axes(cur) |->
                          IF k < i THEN low[k]
                          ELSE IF k = i THEN BdrStep(dd, low, upp, cur, dim, i)
                          ELSE cur[k]],
               dim |-> dim]
         ELSE Scan1(dd, low, upp, cur, dim, i + 1)

\* mutant of Incr: an advance that moves the cursor marks the iterator live
IncrMarksLive(md, dd, low, upp, cur, dim) ==
    LET r == IF md = BDR
             THEN Scan1(dd, low, upp, cur, dim, 1)
             ELSE Scan02(md, dd, low, upp, cur, dim, 1)
    IN  IF r.cur # cur THEN [cur |-> r.cur, dim |-> Len(cur)] ELSE r

\* operator++ of the integer lattice iterator
Incr(md, dd, low, upp, cur, dim) ==
    IF md = BDR
    THEN Scan1(dd, low, upp, cur, dim, 1)
    ELSE Scan02(md, dd, low, upp, cur, dim, 1)

\* isFloor(i), isCeil(i), isBoundary()
isFloor(cur, low, i) == cur[i] = low[i]
isCeil(md, cur, upp, i) ==
    IF md # 0 THEN cur[i] = upp[i] ELSE cur[i] + 1 = upp[i]
isBoundary(cur, low, upp) ==
    \/ \E i \in Axes(cur) : cur[i] = low[i]
    \/ \E i \in Axes(cur) : cur[i] = upp[i]

\* .prod() of a coefficient-wise expression
RECURSIVE Prod(_, _)
Prod(f, n) == IF n = 0 THEN 1 ELSE f[n] * Prod(f, n - 1)

\* mutant of numPoints: the extents taken as upp-low, as for an open range
numPointsOpen(md, low, upp) ==
    LET n == Len(low)
        full == Prod([i \in 1..n |-> upp[i] - low[i]], n)
        inner == Prod([i \in 1..n |-> upp[i] - low[i] - 2], n)
    IN  IF md = 0 THEN full
        ELSE IF md = 1 THEN full - inner
        ELSE 2 ^ n

\* numPoints()
numPoints(md, low, upp) ==
    LET n == Len(low)
        full == Prod([i \in 1..n |-> upp[i] - low[i] + 1], n)
        inner == Prod([i \in 1..n |-> upp[i] - low[i] - 1], n)
    IN  IF md = 0 THEN full
        ELSE IF md = 1 THEN full - inner
        ELSE 2 ^ n

\* numPointsCwise()
numPointsCwise(low, upp) == [i \in Axes(low) |-> upp[i] - low[i] + 1]

\* mutant of StrideAt: the extent of the axis below taken without the +1
RECURSIVE StrideAtOpen(_, _, _)
StrideAtOpen(low, upp, i) ==
    IF i = 1 THEN 1 ELSE StrideAtOpen(low, upp, i - 1) * (upp[i - 1] - low[i - 1])

\* strides()
RECURSIVE StrideAt(_, _, _)
StrideAt(low, upp, i) ==
    IF i = 1 THEN 1 ELSE StrideAt(low, upp, i - 1) * (upp[i - 1] - low[i - 1] + 1)
strides(low, upp) == [i \in Axes(low) |-> StrideAt(low, upp, i)]

\* ----------------------------------------------------------------- inputs
Dims == 1..MaxDim
LowVals == {0, 1}
LowPoints(n) == [1..n -> LowVals]
UppPoints(n) == [1..n -> 0..MaxB]
\* points with the same coordinate on every axis
Diagonal(n, S) == {[i \in 1..n |-> x] : x \in S}
Modes == {CUBE, BDR, VERTEX}

\* the history after a (re)start: the first point, when there is one
Started(dim, p) == IF dim # 0 THEN <<p>> ELSE <<>>

\* the history variables where no history is kept
NoAux == args = <<>> /\ last_op = "" /\ first = <<>> /\ insts = <<>>

\* gsGridIterator(a, b, open), for every mode and both kinds of d
ConstructInt(a, b, open) ==
    /\ kind = "int"
    /\ mode \in Modes
    /\ d \in {-1, Len(a)}
    /\ LET r == LatReset(a, b, open)
       IN  /\ m_low = r.low
           /\ m_upp = r.upp
           /\ m_cur = r.cur
           /\ m_dim = r.dim
           /\ emitted = Started(r.dim, r.cur)
    /\ smp_low = <<>> /\ smp_upp = <<>> /\ m_step = <<>> /\ smp_cur = <<>>
    /\ smp_src = <<>>
    /\ m_cwise = <<>> /\ cw_cur = <<>>

InitInt ==
    /\ \E n \in Dims :
         \E a \in LowPoints(n), b \in UppPoints(n), open \in BOOLEAN :
            ConstructInt(a, b, open)
    /\ NoAux

\* ++it
AdvanceStep ==
    /\ kind = "int"
    /\ m_dim # 0 \/ \A i \in Axes(m_cur) : m_cur[i] < CoordCap
    /\ LET r == Incr(mode, d, m_low, m_upp, m_cur, m_dim)
       IN  /\ m_cur' = r.cur
           /\ m_dim' = r.dim
           /\ emitted' = IF r.dim # 0 THEN Append(emitted, r.cur) ELSE emitted
    /\ UNCHANGED <<kind, mode, d, m_low, m_upp, smpVars, cwVars>>

Advance == AdvanceStep /\ UNCHANGED auxVars

\* it.reset()
ResetStep ==
    /\ kind = "int"
    /\ LET r == LatRestart(m_low, m_upp)
       IN  /\ m_low' = r.low
           /\ m_upp' = r.upp
           /\ m_cur' = r.cur
           /\ m_dim' = r.dim
           /\ emitted' = Started(r.dim, r.cur)
    /\ UNCHANGED <<kind, mode, d, smpVars, cwVars>>

Reset == ResetStep /\ UNCHANGED auxVars

\* it.reset(a, b, open)
RebindStep(a, b, open) ==
    /\ kind = "int"
    /\ LET r == LatReset(a, b, open)
       IN  /\ m_low' = r.low
           /\ m_upp' = r.upp
           /\ m_cur' = r.cur
           /\ m_dim' = r.dim
           /\ emitted' = Started(r.dim, r.cur)
    /\ UNCHANGED <<kind, mode, d, smpVars, cwVars>>

Rebind ==
    /\ \E a \in Diagonal(Len(m_low), LowVals), b \in Diagonal(Len(m_low), {0, MaxB}),
          open \in BOOLEAN :
         RebindStep(a, b, open)
    /\ UNCHANGED auxVars

Next == Advance \/ Reset \/ Rebind

Init == InitInt

Spec == Init /\ [][Next]_vars

\* ------------------------------------------------- uniform sample iterator
\* The scalar type T has finite precision.  Its values are modelled in fixed
\* point, as integer multiples of the precision, and a quotient of T is rounded
\* (toward zero) to a representable value.
TDiv(x, k) == IF x >= 0 THEN x \div k ELSE -((-x) \div k)

Zero(n) == [i \in 1..n |-> 0]

\* (b-a) / (numPointsCwise() - 1).cwiseMax(1), with the counts of m_iter
StepOf(a, b, low, upp) ==
    LET np == numPointsCwise(low, upp)
    IN  [i \in Axes(a) |-> TDiv(b[i] - a[i], IF np[i] - 1 > 1 THEN np[i] - 1 ELSE 1)]

\* the body of operator++ after ++m_iter: the sample at lattice point idx
SampleAt(md, idx, low, upp, a, b, step) ==
    [i \in Axes(a) |->
        IF isFloor(idx, low, i) THEN a[i]
        ELSE IF isCeil(md, idx, upp, i) THEN b[i]
        ELSE a[i] + idx[i] * step[i]]

\* the branch of operator++ that writes coordinate i at lattice point idx
SourceAt(md, idx, low, upp) ==
    [i \in Axes(idx) |->
        IF isFloor(idx, low, i) THEN "m_low"
        ELSE IF isCeil(md, idx, upp, i) THEN "m_upp"
        ELSE "m_step"]

FromLow(n) == [i \in 1..n |-> "m_low"]

WrapDims == {1, 2}
TPoints(n) == [1..n -> 0..MaxT]
Counts(n) == [1..n -> 1..MaxNp]

\* gsGridIterator(a, b, np): m_iter(np, 1), then reset(a, b)
ConstructSmp(a, b, np) ==
    /\ kind = "smp"
    /\ mode \in Modes
    /\ d \in {-1, Len(a)}
    /\ LET c == LatReset(Zero(Len(a)), np, TRUE)
           r == LatRestart(c.low, c.upp)
       IN  /\ smp_low = a
           /\ smp_cur = a
           /\ smp_src = FromLow(Len(a))
           /\ smp_upp = b
           /\ m_step = StepOf(a, b, c.low, c.upp)
           /\ m_low = r.low
           /\ m_upp = r.upp
           /\ m_cur = r.cur
           /\ m_dim = r.dim
           /\ emitted = Started(r.dim, a)
    /\ m_cwise = <<>> /\ cw_cur = <<>>

InitSmp ==
    /\ \E n \in WrapDims :
         \E a \in TPoints(n), b \in TPoints(n), np \in Counts(n) :
            ConstructSmp(a, b, np)
    /\ NoAux

\* ++it of the sample iterator
SmpAdvanceStep ==
    /\ kind = "smp"
    /\ m_dim # 0 \/ \A i \in Axes(m_cur) : m_cur[i] < CoordCap
    /\ LET r == Incr(mode, d, m_low, m_upp, m_cur, m_dim)
           p == SampleAt(mode, r.cur, m_low, m_upp, smp_low, smp_upp, m_step)
       IN  /\ m_cur' = r.cur
           /\ m_dim' = r.dim
           /\ smp_cur' = IF r.dim # 0 THEN p ELSE smp_cur
           /\ smp_src' = IF r.dim # 0 THEN SourceAt(mode, r.cur, m_low, m_upp) ELSE smp_src
           /\ emitted' = IF r.dim # 0 THEN Append(emitted, p) ELSE emitted
    /\ UNCHANGED <<kind, mode, d, m_low, m_upp, smp_low, smp_upp, m_step, cwVars>>

SmpAdvance == SmpAdvanceStep /\ UNCHANGED auxVars

\* it.reset() of the sample iterator
SmpResetStep ==
    /\ kind = "smp"
    /\ LET r == LatRestart(m_low, m_upp)
       IN  /\ smp_cur' = smp_low
           /\ smp_src' = FromLow(Len(smp_low))
           /\ m_low' = r.low
           /\ m_upp' = r.upp
           /\ m_cur' = r.cur
           /\ m_dim' = r.dim
           /\ emitted' = Started(r.dim, smp_low)
    /\ UNCHANGED <<kind, mode, d, smp_low, smp_upp, m_step, cwVars>>

SmpReset == SmpResetStep /\ UNCHANGED auxVars

\* it.reset(a, b) of the sample iterator
SmpRebindStep(a, b) ==
    /\ kind = "smp"
    /\ LET r == LatRestart(m_low, m_upp)
       IN  /\ smp_cur' = a
           /\ smp_src' = FromLow(Len(a))
           /\ smp_low' = a
           /\ smp_upp' = b
           /\ m_step' = StepOf(a, b, m_low, m_upp)
           /\ m_low' = r.low
           /\ m_upp' = r.upp
           /\ m_cur' = r.cur
           /\ m_dim' = r.dim
           /\ emitted' = Started(r.dim, a)
    /\ UNCHANGED <<kind, mode, d, cwVars>>

SmpRebind ==
    /\ \E a \in Diagonal(Len(m_low), 0..MaxT), b \in Diagonal(Len(m_low), 0..MaxT) :
         SmpRebindStep(a, b)
    /\ UNCHANGED auxVars

NextSmp == SmpAdvance \/ SmpReset \/ SmpRebind

SpecSample == InitSmp /\ [][NextSmp]_vars

\* ------------------------------------------------ coordinate-wise iterator
\* A gsMatrix<T> is a record of its shape and its coefficients in storage
\* order; at(k) of the source is coefficient k+1.
ColMatrix(v) == [rows |-> Len(v), cols |-> 1, at |-> v]
RowMatrix(v) == [rows |-> 1, cols |-> Len(v), at |-> v]

\* the per-axis arrays a table is made of, each stored as a column or as a row
AxisArrays == {<<0, 10>>, <<5, 6, 7>>, <<4>>}
AxisMatrices == {ColMatrix(v) : v \in AxisArrays} \cup {RowMatrix(v) : v \in AxisArrays}
\* what storage that resize() leaves unwritten may hold
Indeterminate == {-1, 5}

\* npts[i] = cwise[i].rows() - 1
Npts(cwise) == [i \in Axes(cwise) |-> cwise[i].rows - 1]

\* the shape m_cur is resized to in the constructor
CurRows(cwise) == IF 1 = cwise[1].rows THEN Len(cwise) ELSE 1
CurCols(cwise) == IF 1 = cwise[1].rows THEN 1 ELSE Len(cwise)

\* update(): coefficient i is rewritten for every i below m_cur.rows()
Update(cur, cwise, idx) ==
    [cur EXCEPT !.at = [i \in Axes(cur.at) |->
                          IF i <= cur.rows THEN cwise[i].at[idx[i] + 1] ELSE cur.at[i]]]

\* explicit gsGridIterator(const CwiseContainer & cwise); fresh is what the
\* resized m_cur holds before update()
ConstructCw(cwise, fresh) ==
    /\ kind = "cw"
    /\ mode = CWISE
    /\ d \in {-1, Len(cwise)}
    /\ LET r == LatReset(Zero(Len(cwise)), Npts(cwise), FALSE)
           c == Update([rows |-> CurRows(cwise), cols |-> CurCols(cwise),
                        at |-> fresh], cwise, r.cur)
       IN  /\ m_cwise = cwise
           /\ m_low = r.low
           /\ m_upp = r.upp
           /\ m_cur = r.cur
           /\ m_dim = r.dim
           /\ cw_cur = c
           /\ emitted = Started(r.dim, c.at)
    /\ smp_low = <<>> /\ smp_upp = <<>> /\ m_step = <<>> /\ smp_cur = <<>>
    /\ smp_src = <<>>

InitCw ==
    /\ \E n \in WrapDims :
         \E cwise \in [1..n -> AxisMatrices], fresh \in [1..n -> Indeterminate] :
            ConstructCw(cwise, fresh)
    /\ NoAux

\* ++it of the coordinate-wise iterator
CwAdvanceStep ==
    /\ kind = "cw"
    /\ m_dim # 0 \/ \A i \in Axes(m_cur) : m_cur[i] < CoordCap
    /\ LET r == Incr(CUBE, d, m_low, m_upp, m_cur, m_dim)
           c == IF r.dim # 0 THEN Update(cw_cur, m_cwise, r.cur) ELSE cw_cur
       IN  /\ m_cur' = r.cur
           /\ m_dim' = r.dim
           /\ cw_cur' = c
           /\ emitted' = IF r.dim # 0 THEN Append(emitted, c.at) ELSE emitted
    /\ UNCHANGED <<kind, mode, d, m_low, m_upp, m_cwise, smpVars>>

CwAdvance == CwAdvanceStep /\ UNCHANGED auxVars

\* it.reset() of the coordinate-wise iterator
CwResetStep ==
    /\ kind = "cw"
    /\ LET r == LatRestart(m_low, m_upp)
           c == Update(cw_cur, m_cwise, r.cur)
       IN  /\ m_low' = r.low
           /\ m_upp' = r.upp
           /\ m_cur' = r.cur
           /\ m_dim' = r.dim
           /\ cw_cur' = c
           /\ emitted' = Started(r.dim, c.at)
    /\ UNCHANGED <<kind, mode, d, m_cwise, smpVars>>

CwReset == CwResetStep /\ UNCHANGED auxVars

NextCw == CwAdvance \/ CwReset

SpecCwise == InitCw /\ [][NextCw]_vars

\* ------------------------------------------- the iterators with a history
\* The same operations, recording the arguments of the last reset(a, b, open),
\* the last operation and the points of the first finished traversal.
CallArgs(a, b, open) == [a |-> a, b |-> b, open |-> open]

\* first after a step: set by the advance that ends the first traversal
FirstAfter == IF first = <<>> /\ m_dim # 0 /\ m_dim' = 0 THEN emitted' ELSE first

InitHist ==
    /\ \/ \E n \in WrapDims :
            \E a \in LowPoints(n), b \in UppPoints(n), open \in BOOLEAN :
               ConstructInt(a, b, open) /\ args = CallArgs(a, b, open)
       \/ \E n \in WrapDims :
            \E a \in Diagonal(n, LowVals), b \in Diagonal(n, 0..MaxT), np \in Counts(n) :
               ConstructSmp(a, b, np) /\ args = <<>>
       \/ \E n \in WrapDims :
            \E cwise \in [1..n -> AxisMatrices], fresh \in [1..n -> Indeterminate] :
               ConstructCw(cwise, fresh) /\ args = <<>>
    /\ last_op = "construct"
    /\ first = <<>>
    /\ insts = <<>>

HAdvance ==
    /\ AdvanceStep
    /\ last_op' = "advance" /\ first' = FirstAfter
    /\ UNCHANGED <<args, insts>>

HReset ==
    /\ ResetStep
    /\ last_op' = "reset" /\ args' = CallArgs(m_low, m_upp, FALSE)
    /\ UNCHANGED <<first, insts>>

HRebind ==
    /\ \E a \in Diagonal(Len(m_low), LowVals), b \in Diagonal(Len(m_low), {0, MaxB}),
          open \in BOOLEAN :
         RebindStep(a, b, open) /\ args' = CallArgs(a, b, open)
    /\ last_op' = "rebind" /\ first' = <<>>
    /\ UNCHANGED insts

HSmpAdvance ==
    /\ SmpAdvanceStep
    /\ last_op' = "advance" /\ first' = FirstAfter
    /\ UNCHANGED <<args, insts>>

HSmpReset ==
    /\ SmpResetStep
    /\ last_op' = "reset"
    /\ UNCHANGED <<args, first, insts>>

HSmpRebind ==
    /\ \E a \in Diagonal(Len(m_low), LowVals), b \in Diagonal(Len(m_low), {0, MaxT}) :
         SmpRebindStep(a, b)
    /\ last_op' = "rebind" /\ first' = <<>>
    /\ UNCHANGED <<args, insts>>

HCwAdvance ==
    /\ CwAdvanceStep
    /\ last_op' = "advance" /\ first' = FirstAfter
    /\ UNCHANGED <<args, insts>>

HCwReset ==
    /\ CwResetStep
    /\ last_op' = "reset"
    /\ UNCHANGED <<args, first, insts>>

NextHist ==
    \/ HAdvance \/ HReset \/ HRebind
    \/ HSmpAdvance \/ HSmpReset \/ HSmpRebind
    \/ HCwAdvance \/ HCwReset

SpecHist == InitHist /\ [][NextHist]_vars

\* ------------------------------------------------------- reference notions
Range(s) == {s[k] : k \in 1..Len(s)}
Valid == AllLeq(m_low, m_upp)
\* the integer points of the closed box [m_low, m_upp]
BoxPoints ==
    {p \in [Axes(m_low) -> 0..MaxB] : \A i \in Axes(m_low) : m_low[i] <= p[i] /\ p[i] <= m_upp[i]}
OnBound(p) == \E i \in Axes(p) : p[i] = m_low[i] \/ p[i] = m_upp[i]
\* lexicographic order, axis 0 fastest: the highest differing axis decides
LexLess(p, q) == \E i \in Axes(p) : p[i] < q[i] /\ \A j \in Axes(p) : j > i => p[j] = q[j]
LexLeq(p, q) == p = q \/ LexLess(p, q)
Increasing(s) == \A k \in 1..(Len(s) - 1) : LexLess(s[k], s[k + 1])
\* the reference points a traversal has read: all of S when done, else those up to m_cur
ReadSoFar(S) == IF m_dim # 0 THEN {q \in S : LexLeq(q, m_cur)} ELSE S
RECURSIVE Dot(_, _, _)
Dot(p, q, n) == IF n = 0 THEN 0 ELSE p[n] * q[n] + Dot(p, q, n - 1)
\* dot(p - m_low, strides())
FlatIndex(p) ==
    Dot([i \in Axes(p) |-> p[i] - m_low[i]], strides(m_low, m_upp), Len(p))

\* ------------------------------------------------------------------ claims

\* C1: in boundary mode on a valid box the points read so far are exactly the
\* points of the box with a coordinate at m_low or m_upp that are not after the
\* current point (all of them once the iterator is done), each read once and
\* in lexicographic order.
Thm_C1_BoundaryEqualsFilter ==
    (kind = "int" /\ mode = BDR /\ Valid) =>
        LET S == ReadSoFar({p \in BoxPoints : OnBound(p)})
        IN  /\ Range(emitted) = S
            /\ Len(emitted) = Cardinality(S)
            /\ Increasing(emitted)
Wit_C1_Perimeter ==
    /\ kind = "int" /\ mode = BDR /\ m_dim = 0
    /\ m_low = <<0, 0>> /\ m_upp = <<2, 2>>
    /\ emitted = << <<0, 0>>, <<1, 0>>, <<2, 0>>, <<0, 1>>, <<2, 1>>,
                    <<0, 2>>, <<1, 2>>, <<2, 2>> >>

\* C2: in boundary mode on a valid box a finished traversal has read
\* numPoints() points.
Cex_C2_BoundaryCountIsNumPoints ==
    (kind = "int" /\ mode = BDR /\ Valid /\ m_dim = 0) =>
        Len(emitted) = numPoints(mode, m_low, m_upp)

\* C3: in boundary mode a non-exhausted iterator has isBoundary() true, and
\* its current point is not strictly inside the box.
Thm_C3_AlwaysOnBoundary ==
    (kind = "int" /\ mode = BDR /\ m_dim # 0) =>
        /\ isBoundary(m_cur, m_low, m_upp)
        /\ ~ \A i \in Axes(m_cur) : m_low[i] < m_cur[i] /\ m_cur[i] < m_upp[i]
Wit_C3_AfterJump ==
    /\ kind = "int" /\ mode = BDR /\ m_dim # 0
    /\ m_low = <<0, 0>> /\ m_upp = <<3, 3>> /\ m_cur = <<3, 2>>
    /\ Len(emitted) = 8

\* C4: in full-box mode on a valid box a finished traversal has read
\* numPoints() points, which is the number of integer points of the box.
Thm_C4_CubeCount ==
    (kind = "int" /\ mode = CUBE /\ Valid) =>
        /\ numPoints(mode, m_low, m_upp) = Cardinality(BoxPoints)
        /\ Len(emitted) <= numPoints(mode, m_low, m_upp)
        /\ m_dim = 0 => Len(emitted) = numPoints(mode, m_low, m_upp)
Wit_C4_TwelvePoints ==
    /\ kind = "int" /\ mode = CUBE /\ m_dim = 0 /\ Valid
    /\ Len(m_low) = 2 /\ Len(emitted) = 12

\* C5: in full-box mode the flat index dot(p - m_low, strides()) of the k-th
\* point read is k-1: 0 at the first point, one more after every advance, and
\* numPoints()-1 at the last point, after which the iterator is done.
Thm_C5_StrideLaw ==
    (kind = "int" /\ mode = CUBE /\ Valid) =>
        /\ \A k \in 1..Len(emitted) : FlatIndex(emitted[k]) = k - 1
        /\ m_dim # 0 => emitted[Len(emitted)] = m_cur
        /\ (m_dim # 0 /\ m_cur = m_upp) =>
               FlatIndex(m_cur) = numPoints(mode, m_low, m_upp) - 1
        /\ m_dim = 0 => Len(emitted) = numPoints(mode, m_low, m_upp)
Wit_C5_LastPoint ==
    /\ kind = "int" /\ mode = CUBE /\ m_dim # 0
    /\ m_low = <<1, 0>> /\ m_upp = <<3, 2>> /\ m_cur = m_upp
    /\ Len(emitted) = 9

\* C7: every point the coordinate-wise iterator shows has, on every axis i,
\* the coordinate table[i][tensorIndex()[i]]; and for the table of the axis
\* lists [0,10] and [5,6,7] a finished traversal has read
\* (0,5),(10,5),(0,6),(10,6),(0,7),(10,7).
Cex_C7_TableLookupEveryAxis ==
    /\ (kind = "cw" /\ m_dim # 0) =>
          \A i \in Axes(m_cwise) : cw_cur.at[i] = m_cwise[i].at[m_cur[i] + 1]
    /\ (/\ kind = "cw" /\ m_dim = 0 /\ Len(m_cwise) = 2
        /\ m_cwise[1].at = <<0, 10>> /\ m_cwise[2].at = <<5, 6, 7>>) =>
          emitted = << <<0, 5>>, <<10, 5>>, <<0, 6>>, <<10, 6>>, <<0, 7>>, <<10, 7>> >>

\* C8: for the sample iterator with at least two samples on every axis, the
\* sample at the first lattice point is a and the sample at the last lattice
\* point (index np-1 on every axis) is b itself, assigned from the stored
\* upper bound and not computed from the step.
Cex_C8_EndpointsExact ==
    (kind = "smp" /\ m_dim # 0 /\ \A i \in Axes(m_cur) : m_upp[i] - m_low[i] + 1 >= 2) =>
        /\ m_cur = m_low => smp_cur = smp_low
        /\ m_cur = m_upp =>
              /\ smp_cur = smp_upp
              /\ \A i \in Axes(m_cur) : smp_src[i] = "m_upp"

\* C9: for the sample iterator the lattice runs over [0, np-1], and the
\* coordinate on axis i is a[i] at index 0, b[i] at index np[i]-1 and
\* a[i] + k*step[i] at every index k strictly between.
Cex_C9_IndexToCoordinate ==
    (kind = "smp" /\ m_dim # 0) =>
        \A i \in Axes(m_cur) :
            /\ m_low[i] = 0 /\ 0 <= m_cur[i] /\ m_cur[i] <= m_upp[i]
            /\ smp_cur[i] = IF m_cur[i] = 0 THEN smp_low[i]
                            ELSE IF m_cur[i] = m_upp[i] THEN smp_upp[i]
                            ELSE smp_low[i] + m_cur[i] * m_step[i]

\* C6: in vertex mode on a valid box of dimension n a finished traversal has
\* read 2^n points, the value of numPoints().
Cex_C6_VertexCount ==
    (kind = "int" /\ mode = VERTEX /\ Valid /\ m_dim = 0) =>
        /\ Len(emitted) = 2 ^ Len(m_low)
        /\ Len(emitted) = numPoints(mode, m_low, m_upp)

\* C10: in every non-exhausted state and on every axis i, isFloor(i) holds
\* exactly when the current coordinate is m_low[i], isCeil(i) exactly when it
\* is m_upp[i], and isBoundary() exactly when isFloor(i) or isCeil(i) holds
\* for some i.  The wrappers delegate to m_iter, whose mode is 0 for the
\* coordinate-wise iterator.
IterMode == IF kind = "cw" THEN CUBE ELSE mode
Cex_C10_BoundQueries ==
    m_dim # 0 =>
        /\ \A i \in Axes(m_cur) :
              /\ isFloor(m_cur, m_low, i) <=> m_cur[i] = m_low[i]
              /\ isCeil(IterMode, m_cur, m_upp, i) <=> m_cur[i] = m_upp[i]
        /\ isBoundary(m_cur, m_low, m_upp) <=>
              \E i \in Axes(m_cur) :
                  isFloor(m_cur, m_low, i) \/ isCeil(IterMode, m_cur, m_upp, i)

\* C11: after gsGridIterator(a, b, open) or reset(a, b, open) the stored upper
\* limit is b-1 on every axis when open and b when not, and a mode-0 traversal
\* reads exactly the integer points p with a[i] <= p[i] < b[i] on every axis
\* when open (a[i] <= p[i] <= b[i] when not), each once, in lexicographic order.
ArgBox ==
    {p \in [Axes(m_low) -> 0..MaxB] :
        \A i \in Axes(m_low) :
            /\ args.a[i] <= p[i]
            /\ IF args.open THEN p[i] < args.b[i] ELSE p[i] <= args.b[i]}
Thm_C11_OpenInterval ==
    kind = "int" =>
        /\ m_low = args.a
        /\ m_upp = [i \in Axes(m_low) |-> IF args.open THEN args.b[i] - 1 ELSE args.b[i]]
        /\ mode = CUBE =>
              LET S == ReadSoFar(ArgBox)
              IN  /\ Range(emitted) = S
                  /\ Len(emitted) = Cardinality(S)
                  /\ Increasing(emitted)
Wit_C11_NinePoints ==
    /\ kind = "int" /\ mode = CUBE /\ m_dim = 0
    /\ args = CallArgs(<<0, 0>>, <<3, 3>>, TRUE)
    /\ emitted = << <<0, 0>>, <<1, 0>>, <<2, 0>>, <<0, 1>>, <<1, 1>>, <<2, 1>>,
                    <<0, 2>>, <<1, 2>>, <<2, 2>> >>

\* C12: reset() leaves the stored limits as they are and, on a non-empty box,
\* leaves the iterator non-exhausted with the cursor at the first point; and
\* once a traversal has finished, every later traversal started by reset()
\* reads the same points in the same order (a prefix of them while it runs).
IsPrefix(s, t) == Len(s) <= Len(t) /\ \A k \in 1..Len(s) : s[k] = t[k]
Thm_C12_ResetIdempotent ==
    [][/\ last_op' = "reset" =>
             /\ m_low' = m_low /\ m_upp' = m_upp
             /\ AllLeq(m_low, m_upp) =>
                   /\ m_dim' # 0 /\ m_cur' = m_low
                   /\ Len(emitted') = 1
                   /\ first # <<>> => emitted'[1] = first[1]
                   /\ kind = "smp" => smp_cur' = smp_low
                   /\ kind = "cw" => cw_cur'.at = emitted'[1]
       /\ first' # <<>> =>
             IF m_dim' = 0 THEN emitted' = first' ELSE IsPrefix(emitted', first')
      ]_vars
Wit_C12_SecondTraversal ==
    /\ kind = "int" /\ mode = BDR /\ m_dim # 0 /\ last_op = "advance"
    /\ Len(first) = 8 /\ emitted = first /\ args.open = FALSE
    /\ m_low = <<0, 0>> /\ m_upp = <<2, 2>>

\* C13: on a boundary-mode box with an axis of span upp[i]-low[i] < 2 (in
\* particular low[i] = upp[i]) the interior term of numPoints() is 0, so that
\* numPoints() is the number of integer points of the whole box.
Cex_C13_DegenerateBoundaryCount ==
    (/\ kind = "int" /\ mode = BDR /\ Valid
     /\ \E i \in Axes(m_low) : m_upp[i] - m_low[i] < 2) =>
        /\ Prod([i \in Axes(m_low) |-> m_upp[i] - m_low[i] - 1], Len(m_low)) = 0
        /\ numPoints(mode, m_low, m_upp) = Cardinality(BoxPoints)

\* C14: right after a construction or a re-binding, in every mode, the
\* iterator is exhausted at once when the bounds after the open shift have
\* low[i] > upp[i] on some axis (open with b = a included), and otherwise it
\* is not exhausted and its current point is low.
Thm_C14_EmptyBoxExhausted ==
    (kind = "int" /\ last_op \in {"construct", "rebind"}) =>
        LET upp == [i \in Axes(args.b) |->
                       IF args.open THEN args.b[i] - 1 ELSE args.b[i]]
        IN  IF \E i \in Axes(args.a) : args.a[i] > upp[i]
            THEN m_dim = 0 /\ emitted = <<>>
            ELSE m_dim # 0 /\ m_cur = args.a /\ emitted = <<args.a>>
Wit_C14_OpenOnEqualBounds ==
    /\ kind = "int" /\ last_op = "rebind"
    /\ args.open /\ args.b = args.a
    /\ m_dim = 0

\* C15: in vertex mode, in every non-exhausted state, every coordinate of the
\* current point is low[i] or upp[i]: the current point is a corner of the box.
Thm_C15_VertexIsCorner ==
    (kind = "int" /\ mode = VERTEX /\ m_dim # 0) =>
        \A i \in Axes(m_cur) : m_cur[i] = m_low[i] \/ m_cur[i] = m_upp[i]
Wit_C15_FarCorner ==
    /\ kind = "int" /\ mode = VERTEX /\ m_dim # 0
    /\ m_low = <<0, 0>> /\ m_upp = <<3, 3>>
    /\ m_cur = <<3, 3>> /\ Len(emitted) = 4

\* A caller that only advances: for (; it; ++it), every ++it eventually issued.
SpecAdvance == InitInt /\ [][Advance]_vars /\ WF_vars(Advance)

\* C16: in every mode, from a constructed iterator on a valid box, repeated
\* advances reach the exhausted state; and an advance sets the exhausted flag
\* only when the cursor is at the last point, with every axis at upp.
Thm_C16_Termination ==
    /\ (kind = "int" /\ m_dim # 0) ~> (m_dim = 0)
    /\ [][(m_dim # 0 /\ m_dim' = 0) => m_cur = m_upp]_vars
Wit_C16_ExhaustedAfterEight ==
    /\ kind = "int" /\ mode = BDR /\ m_dim = 0
    /\ m_low = <<0, 0>> /\ m_upp = <<2, 2>>
    /\ Len(emitted) = 8 /\ emitted[8] = m_upp

\* Two iterator objects. The fields of one object: the lattice members m_low,
\* m_upp, m_cur, m_dim, the coordinate-wise m_cur (cw), the points read since
\* its last (re)start, and the last answer of numPoints() (q, 0 before any).
InstOf ==
    [low |-> m_low, upp |-> m_upp, cur |-> m_cur, dim |-> m_dim,
     cw |-> cw_cur, emitted |-> emitted, q |-> 0]

\* the point operator* returns for the lattice cursor cur and the matrix cw
InstPoint(cur, cw) == IF kind = "cw" THEN cw.at ELSE cur

\* mutant of InstAdvance: the cursor is one storage shared by the objects,
\* so the scan starts from where the other object left it
InstAdvanceShared(self, other) ==
    LET r == Incr(IterMode, d, self.low, self.upp, other.cur, self.dim)
        c == IF kind = "cw" /\ r.dim # 0 THEN Update(self.cw, m_cwise, r.cur)
             ELSE self.cw
    IN  [self EXCEPT !.cur = r.cur, !.dim = r.dim, !.cw = c,
                     !.emitted = IF r.dim # 0 THEN Append(@, InstPoint(r.cur, c))
                                 ELSE @]

\* ++it on the object self: only the members of self are read and written
InstAdvance(self, other) ==
    LET r == Incr(IterMode, d, self.low, self.upp, self.cur, self.dim)
        c == IF kind = "cw" /\ r.dim # 0 THEN Update(self.cw, m_cwise, r.cur)
             ELSE self.cw
    IN  [self EXCEPT !.cur = r.cur, !.dim = r.dim, !.cw = c,
                     !.emitted = IF r.dim # 0 THEN Append(@, InstPoint(r.cur, c))
                                 ELSE @]

\* it.reset() on the object self
InstReset(self, other) ==
    LET r == LatRestart(self.low, self.upp)
        c == IF kind = "cw" THEN Update(self.cw, m_cwise, r.cur) ELSE self.cw
    IN  [self EXCEPT !.low = r.low, !.upp = r.upp, !.cur = r.cur, !.dim = r.dim,
                     !.cw = c,
                     !.emitted = Started(r.dim, InstPoint(r.cur, c))]

\* it.numPoints() on the object self: a const member, the answer is kept in q
InstQuery(self, other) ==
    [self EXCEPT !.q = numPoints(IterMode, self.low, self.upp)]

\* everything but the two objects
pairFixed ==
    <<kind, mode, d, m_low, m_upp, m_cur, m_dim, emitted, smpVars, cwVars, histVars>>

\* two objects constructed with the same arguments: the same bounds, or the
\* same coordinate table
InitPair ==
    /\ \E n \in WrapDims :
         \/ \E a \in Diagonal(n, LowVals), b \in UppPoints(n) :
               ConstructInt(a, b, FALSE)
         \/ \E cwise \in [1..n -> AxisMatrices], fresh \in [1..n -> Indeterminate] :
               ConstructCw(cwise, fresh)
    /\ args = <<>> /\ last_op = "" /\ first = <<>>
    /\ insts = <<InstOf, InstOf>>

PairAdvance ==
    /\ \E k \in 1..2 :
         /\ insts[k].dim # 0 \/ \A i \in Axes(insts[k].cur) : insts[k].cur[i] < CoordCap
         /\ insts' = [insts EXCEPT ![k] = InstAdvance(insts[k], insts[3 - k])]
    /\ UNCHANGED pairFixed

PairReset ==
    /\ \E k \in 1..2 : insts' = [insts EXCEPT ![k] = InstReset(insts[k], insts[3 - k])]
    /\ UNCHANGED pairFixed

PairQuery ==
    /\ \E k \in 1..2 : insts' = [insts EXCEPT ![k] = InstQuery(insts[k], insts[3 - k])]
    /\ UNCHANGED pairFixed

NextPair == PairAdvance \/ PairReset \/ PairQuery

SpecPair == InitPair /\ [][NextPair]_vars

\* what an object alone reads from the state self on, up to exhaustion
RECURSIVE Solo(_)
Solo(self) == IF self.dim = 0 THEN self.emitted ELSE Solo(InstAdvance(self, self))

FirstFree == CHOOSE i \in Axes(m_cur) :
                 m_cur[i] # m_upp[i] /\ \A k \in 1..(i - 1) : m_cur[k] = m_upp[k]
AtBoundAbove(i) ==
    Cardinality({j \in (i + 1)..Len(m_cur) : m_cur[j] = m_low[j] \/ m_cur[j] = m_upp[j]})
\* an advance in boundary mode whose first axis not at upp sits at low
CarryCase ==
    /\ kind = "int" /\ mode = BDR /\ last_op' = "advance"
    /\ m_dim # 0 /\ m_cur # m_upp
    /\ m_cur[FirstFree] = m_low[FirstFree]

\* C18 as stated: in boundary mode, when the first axis i not at upp sits at
\* low, the advance sets cur[i] to upp[i] exactly when the number of axes
\* above i that sit at a bound is 1, and otherwise adds one to cur[i]; the
\* axes below i are reset to low.
Cex_C18_JumpWhenCountIsOne ==
    [][CarryCase =>
          LET i == FirstFree
          IN  /\ m_cur'[i] = IF AtBoundAbove(i) = 1 THEN m_upp[i] ELSE m_cur[i] + 1
              /\ \A k \in 1..(i - 1) : m_cur'[k] = m_low[k]
      ]_vars
\* C18 amended: cur[i] is set to upp[i] exactly when i is the first axis of
\* the box and no axis above it sits at a bound (the counter starts at the
\* 1-based index of i and is compared with 1); otherwise one is added to
\* cur[i]; the axes below i are reset to low and the axes above are kept.
Thm_C18_JumpOnFirstAxisOnly ==
    [][CarryCase =>
          LET i == FirstFree
          IN  /\ m_cur'[i] = IF i = 1 /\ AtBoundAbove(i) = 0
                             THEN m_upp[i] ELSE m_cur[i] + 1
              /\ \A k \in 1..(i - 1) : m_cur'[k] = m_low[k]
              /\ \A k \in (i + 1)..Len(m_cur) : m_cur'[k] = m_cur[k]
              /\ m_dim' = m_dim
      ]_vars
Wit_C18_JumpedAcrossRow ==
    /\ kind = "int" /\ mode = BDR /\ last_op = "advance" /\ m_dim # 0
    /\ m_low = <<0, 0>> /\ m_upp = <<3, 3>>
    /\ Len(emitted) >= 2
    /\ emitted[Len(emitted) - 1] = <<0, 1>> /\ m_cur = <<3, 1>>

\* a one-dimensional boundary-mode iterator on a valid box
OneDimBoundary == kind = "int" /\ mode = BDR /\ Len(m_low) = 1 /\ Valid
\* the points low, low+1, ..., upp of a one-dimensional box, in order
Segment == [k \in 1..(m_upp[1] - m_low[1] + 1) |-> <<m_low[1] + k - 1>>]
\* its two ends: one point when low = upp
Ends == IF m_low = m_upp THEN <<m_low>> ELSE <<m_low, m_upp>>

\* C19 as stated: in one dimension the boundary mode reads every integer
\* point of [low, upp], in the order low, low+1, ..., upp.
Cex_C19_OneDimEveryPoint ==
    OneDimBoundary =>
        IF m_dim = 0 THEN emitted = Segment ELSE IsPrefix(emitted, Segment)
\* C19 amended: in one dimension the boundary mode reads the two ends of
\* [low, upp] only, low and then upp (one point when low = upp); the points
\* strictly between them are skipped.
Thm_C19_OneDimEndsOnly ==
    OneDimBoundary =>
        IF m_dim = 0 THEN emitted = Ends ELSE IsPrefix(emitted, Ends)
Wit_C19_SkippedInterior ==
    /\ OneDimBoundary /\ m_dim = 0
    /\ m_low = <<0>> /\ m_upp = <<3>>
    /\ emitted = <<<<0>>, <<3>>>>

\* the lengths of the arrays of the coordinate table
Lengths == [i \in Axes(m_cwise) |-> Len(m_cwise[i].at)]

\* C20: for every table the constructor accepts, each array stored as one
\* column or as one row, the wrapped lattice has the range [0, length-1] on
\* every axis, numPointsCwise() is the vector of the array lengths,
\* numPoints() is their product, and a finished traversal has read that many
\* points.
Cex_C20_ExtentIsArrayLength ==
    kind = "cw" =>
        /\ \A i \in Axes(m_cwise) : m_low[i] = 0 /\ m_upp[i] = Lengths[i] - 1
        /\ numPointsCwise(m_low, m_upp) = Lengths
        /\ numPoints(CUBE, m_low, m_upp) = Prod(Lengths, Len(m_cwise))
        /\ m_dim = 0 => Len(emitted) = Prod(Lengths, Len(m_cwise))

\* an advance of the boundary or vertex mode that does not exhaust the iterator
OrderedStep ==
    /\ kind = "int" /\ mode \in {BDR, VERTEX}
    /\ m_dim # 0 /\ m_dim' # 0
    /\ emitted' = Append(emitted, m_cur')

\* C21: in modes 1 and 2 the flat index dot(cur - low, strides()) of the
\* current point strictly increases on every advance that does not exhaust
\* the iterator, so the points of one traversal are read in lexicographic
\* order, axis 0 fastest, and none is read twice.
Thm_C21_FlatIndexIncreases ==
    /\ [][OrderedStep =>
              /\ FlatIndex(m_cur) < FlatIndex(m_cur')
              /\ LexLess(m_cur, m_cur')]_vars
    /\ []((kind = "int" /\ mode \in {BDR, VERTEX}) =>
              /\ Increasing(emitted)
              /\ Cardinality(Range(emitted)) = Len(emitted))
Wit_C21_IndexFiveAfterThree ==
    /\ kind = "int" /\ mode = BDR /\ m_dim # 0
    /\ m_low = <<0, 0>> /\ m_upp = <<2, 2>>
    /\ Len(emitted) = 5
    /\ FlatIndex(emitted[4]) = 3 /\ FlatIndex(m_cur) = 5

\* C22: in every mode, once the integer lattice iterator is exhausted (after
\* the final advance, or from construction on an empty box), an advance
\* leaves it exhausted and leaves low and upp as they are; only reset() or
\* reset(low, upp, open) on a non-empty box makes it live again; and with the
\* dimension fixed at run time (d = -1) such an advance leaves the cursor
\* unchanged too.
Thm_C22_ExhaustionAbsorbing ==
    [][(kind = "int" /\ m_dim = 0) =>
          /\ last_op' = "advance" =>
                /\ m_dim' = 0
                /\ m_low' = m_low /\ m_upp' = m_upp
                /\ d = -1 => m_cur' = m_cur
          /\ m_dim' # 0 => last_op' \in {"reset", "rebind"}
          /\ last_op' \in {"reset", "rebind"} =>
                (m_dim' # 0 <=> \A i \in Axes(m_low') : m_low'[i] <= m_upp'[i])
      ]_vars
Wit_C22_AdvancedOnEmptyBox ==
    /\ kind = "int" /\ d = -1 /\ last_op = "advance"
    /\ m_dim = 0 /\ emitted = <<>>
    /\ \E i \in Axes(m_low) : m_low[i] > m_upp[i]
    /\ m_cur = m_low
====
